---- MODULE Spec2Model ----
(***************************************************************************)
(* The ingestion pipeline of youtube-summary: the orchestrator             *)
(* fetchAndSummarizeVideos with its pending-queue pass                     *)
(* processPendingVideos (backend/src/jobs/fetchVideos.ts), the single-video*)
(* job of backend/src/jobs/fetchSingleVideo.ts, the triggers (index.ts,    *)
(* lib/db.ts, the admin routes), the channel routes, and the tables        *)
(* youtube_channels, videos and pending_videos of backend/init.sql.        *)
(*                                                                         *)
(* Every await on the database is a step of its own; the calls to the      *)
(* outside world (discovery, transcript, summarizer, metadata) read and    *)
(* write no shared state, so each is taken together with the database      *)
(* statement that follows it, its result drawn with \E.  The variable ev   *)
(* records which of those calls the last step made.                        *)
(***************************************************************************)
EXTENDS Integers, Sequences, FiniteSets, TLC

VARIABLES
    videos,    \* table videos, rows in insertion order
    pending,   \* table pending_videos, rows in added_at order
    run,       \* run[r]: the locals of orchestrator invocation slot r
    job,       \* job[j]: the jobs map entry and the locals of single-video job j
    nInv,      \* invocations of fetchAndSummarizeVideos started so far
    attempts,  \* attempts[v]: transcript extractions of the orchestrator for v
               \* since v was last taken as a new candidate (history)
    scen,      \* scen[v]: so far every channel loop was handed v by discovery
               \* and every transcript extraction for v was unusable (history)
    ev,        \* what the last step did (history)
    dropped,   \* the ids whose pending row the pass has deleted for lack of a
               \* transcript (history)
    calc,      \* the argument and the result of a function applied on its own
    channels,  \* table youtube_channels, rows in insertion order
    cron,      \* the module state of the cron manager: task and active, and
               \* which trigger made the last call of the orchestrator and
               \* which call was last made on the manager (history)
    addReq,    \* addReq[q]: the position of POST /api/channels request q
    age        \* age[v]: the invocations started since the one that queued v,
               \* that one included, and how many of them found a channel of
               \* their category (history, kept where the invocations are
               \* counted)

vars ==
    <<videos, pending, run, job, nInv, attempts, scen, ev, dropped, calc,
      channels, cron, addReq, age>>

---------------------------------------------------------------------------
(* Bounds of the model *)

\* invocations of the orchestrator that are started in one behaviour
MaxInvocations == 3

Runs == {"r1", "r2"}
Jobs == {"j1", "j2"}
\* the job that runs alongside the orchestrator
OneJob == {"j1"}
\* the add-channel requests that are handled at the same time
Reqs == {"q1", "q2"}
VideoIds == {"v1", "v2"}

\* the longest duration token that is built from the alphabet
MaxTokenLen == 5

---------------------------------------------------------------------------
(* Program constants *)

\* transcript.length < 100
MinTranscriptLen == 100

MANUAL_CHANNEL_ID == "manual"

\* const maxChars = 8000
MaxChars == 8000

\* transcript.substring(0, 300)
FallbackChars == 300

---------------------------------------------------------------------------
(* Strings whose case matters are sequences of characters *)

LowerChar(c) ==
    CASE c = "M" -> "m"
      [] c = "A" -> "a"
      [] c = "I" -> "i"
      [] c = "N" -> "n"
      [] c = "T" -> "t"
      [] c = "E" -> "e"
      [] c = "C" -> "c"
      [] c = "H" -> "h"
      [] OTHER -> c

\* SQL LOWER()
Lower(s) == [i \in DOMAIN s |-> LowerChar(s[i])]

\* rows of youtube_channels, in the order the SELECT returns them
ChannelRows ==
    << [id |-> "c1", channel_id |-> "UC1", category |-> <<"m", "a", "i", "n">>],
       [id |-> "c2", channel_id |-> "UC2", category |-> <<"M", "a", "i", "n">>],
       [id |-> "c3", channel_id |-> "UC3", category |-> <<"T", "e", "c", "h">>] >>

\* the row of the reserved channel that owns the standalone videos, under a
\* category no trigger asks for
SentinelRow ==
    [id |-> MANUAL_CHANNEL_ID, channel_id |-> "standalone",
     category |-> <<"s", "t", "a", "n", "d", "a", "l", "o", "n", "e">>]

\* the categoryFilter arguments the invocations are called with
Filters ==
    { <<"m", "a", "i", "n">>, <<"t", "e", "c", "h">>, <<"n", "e", "w", "s">> }

\* the channel a video is published on: the search API is asked per channelId
ChannelOf(v) == "c1"

\* SELECT * FROM youtube_channels WHERE LOWER(category) = LOWER($1)
MatchesCategory(row, filter) == Lower(row.category) = Lower(filter)

SelectChannels(filter) ==
    LET keep == SelectSeq(channels, LAMBDA row : MatchesCategory(row, filter))
    IN  [i \in DOMAIN keep |-> keep[i].id]

---------------------------------------------------------------------------
(* The outside world *)

\* all sequences without repetition over the set S
RECURSIVE Perms(_)
Perms(S) ==
    IF S = {} THEN { <<>> }
    ELSE UNION { { <<x>> \o p : p \in Perms(S \ {x}) } : x \in S }

\* what fetchLatestVideos can return for a channel: some of its videos of the
\* last 24 hours, none twice
DiscoveryResults(ch) ==
    UNION { Perms(S) : S \in SUBSET { v \in VideoIds : ChannelOf(v) = ch } }

AllDiscoveryResults ==
    UNION { DiscoveryResults(ChannelRows[i].id) : i \in DOMAIN ChannelRows }

\* what getTranscriptFromYouTube can return: null, or the joined text (its length)
TranscriptResults ==
    { [ok |-> FALSE, len |-> 0] } \cup
    { [ok |-> TRUE, len |-> n] : n \in {MinTranscriptLen - 1, MinTranscriptLen} }

\* the test left out altogether: whatever came back goes to the summarizer
NeverUnusable(t) == FALSE

\* the test of the length left out: only a missing transcript is refused
UnusableWhenMissing(t) == ~t.ok

\* the comparison written <= : a transcript of exactly 100 characters is refused
UnusableAtThreshold(t) == ~t.ok \/ t.len <= MinTranscriptLen

\* !transcript || transcript.length < 100
Unusable(t) == ~t.ok \/ t.len < MinTranscriptLen

\* what generateSummaryWithOpenRouter returns: the model's text, or the
\* truncated input when the call fails
Summaries == {"llm", "fallback"}

---------------------------------------------------------------------------
(* SQL on the two tables *)

\* SELECT id FROM <table> WHERE video_id = $1 : rows.length > 0
HasRow(tbl, v) == \E i \in DOMAIN tbl : tbl[i].video_id = v

\* the column declared without UNIQUE
NoUniqueConstraint(tbl, row) == FALSE

\* video_id VARCHAR(255) UNIQUE NOT NULL
UniqueViolation(tbl, row) == HasRow(tbl, row.video_id)

\* the INSERT written without ON CONFLICT: a second row for an id is refused
\* with an error
RejectedOnConflict(tbl, row) == UniqueViolation(tbl, row)

\* whether the INSERT ... ON CONFLICT (video_id) DO NOTHING of the pass raises
\* an error for this row: never, a conflict is passed over
PromotionRejected(tbl, row) == FALSE

\* the ids of the rows of youtube_channels
ChannelIds(tbl) == { tbl[i].id : i \in DOMAIN tbl }

\* the column declared without REFERENCES
NoForeignKey(tbl, row) == FALSE

\* channel_id UUID NOT NULL REFERENCES youtube_channels(id): a row whose channel
\* is not in the table is refused with an error
ForeignKeyViolation(tbl, row) == row.channel_id \notin ChannelIds(tbl)

\* INSERT ... ON CONFLICT (video_id) DO NOTHING
InsertOrIgnore(tbl, row) ==
    IF UniqueViolation(tbl, row) THEN tbl ELSE Append(tbl, row)

\* DELETE FROM <table> WHERE video_id = $1
DeleteRow(tbl, v) == SelectSeq(tbl, LAMBDA row : row.video_id # v)

\* UPDATE pending_videos SET retry_count = retry_count + 1 WHERE video_id = $1
IncrementRetry(tbl, v) ==
    [i \in DOMAIN tbl |->
        IF tbl[i].video_id = v
        THEN [tbl[i] EXCEPT !.retry_count = @ + 1]
        ELSE tbl[i]]

\* the columns of videos the pipeline decides on; the summary text is in ev
VideoRow(v, ch) == [video_id |-> v, channel_id |-> ch]

\* the row queued as if it had been retried once already
PendingRowRetried(v, ch) ==
    [video_id |-> v, channel_id |-> ch, retry_count |-> 1]

\* retry_count INTEGER NOT NULL DEFAULT 0
PendingRow(v, ch) == [video_id |-> v, channel_id |-> ch, retry_count |-> 0]

RowOf(tbl, v) == tbl[CHOOSE i \in DOMAIN tbl : tbl[i].video_id = v]

Count(tbl, v) == Cardinality({ i \in DOMAIN tbl : tbl[i].video_id = v })

---------------------------------------------------------------------------
(* Initial state *)

IdleRun ==
    [pc |-> "idle", filter |-> <<>>, chans |-> <<>>, cands |-> <<>>,
     exV |-> "unread", exP |-> "unread", snap |-> <<>>, passes |-> 0]

NoJob == [status |-> "none", pc |-> "none", vid |-> "none"]

\* transcript and summary: <<>> when the step made no such call, else <<result>>
NoEvent ==
    [actor |-> "none", op |-> "none", vid |-> "none",
     transcript |-> <<>>, summary |-> <<>>, made |-> "none"]

Event(a, o, v, t, s, m) ==
    [actor |-> a, op |-> o, vid |-> v,
     transcript |-> t, summary |-> s, made |-> m]

\* no function is being applied on its own
NoCalc == [fn |-> "none"]

\* let task = null; let active = true
NoCron == [task |-> "null", active |-> TRUE, last |-> "none", asked |-> "none"]

NoRequest == [pc |-> "idle", ext |-> "none", status |-> "none"]

NoAge == [all |-> 0, matching |-> 0]

Init ==
    /\ videos = <<>>
    /\ pending = <<>>
    /\ run = [r \in Runs |-> IdleRun]
    /\ job = [j \in Jobs |-> NoJob]
    /\ nInv = 0
    /\ attempts = [v \in VideoIds |-> 0]
    /\ scen = [v \in VideoIds |-> TRUE]
    /\ ev = NoEvent
    /\ dropped = {}
    /\ channels = ChannelRows \o << SentinelRow >>
    /\ cron = NoCron
    /\ addReq = [q \in Reqs |-> NoRequest]
    /\ age = [v \in VideoIds |-> NoAge]
    /\ calc = NoCalc

---------------------------------------------------------------------------
(* fetchAndSummarizeVideos: the channel loop *)

Range(seq) == { seq[i] : i \in DOMAIN seq }

\* the early return left out: the loop over no channel, then the pass
AfterLoadNoReturn(chs) == IF Len(chs) = 0 THEN "pass" ELSE "discover"

\* if (channels.length === 0) return;   otherwise the for loop over channels
AfterLoad(chs) == IF Len(chs) = 0 THEN "done" ELSE "discover"

\* the call of processPendingVideos() left out after the last channel
NextChannelNoPass(st) ==
    LET rest == IF st.chans = <<>> THEN <<>> ELSE Tail(st.chans)
    IN  [st EXCEPT !.chans = rest, !.cands = <<>>,
                   !.exV = "unread", !.exP = "unread",
                   !.pc = IF rest = <<>> THEN "done" ELSE "discover"]

\* the try/catch placed inside for (const video of videos): after an error the
\* loop goes on with the candidate that follows
CatchInsideVideoLoop(st) ==
    IF Len(st.cands) > 1
    THEN [st EXCEPT !.cands = Tail(st.cands), !.pc = "check",
                    !.exV = "unread", !.exP = "unread"]
    ELSE LET rest == IF st.chans = <<>> THEN <<>> ELSE Tail(st.chans)
         IN  [st EXCEPT !.chans = rest, !.cands = <<>>,
                        !.exV = "unread", !.exP = "unread",
                        !.pc = IF rest = <<>> THEN "pass" ELSE "discover"]

\* the end of one round of for (const channel of channels), also through catch:
\* the next channel, or processPendingVideos() after the last one
NextChannel(st) ==
    LET rest == IF st.chans = <<>> THEN <<>> ELSE Tail(st.chans)
    IN  [st EXCEPT !.chans = rest, !.cands = <<>>,
                   !.exV = "unread", !.exP = "unread",
                   !.pc = IF rest = <<>> THEN "pass" ELSE "discover"]

\* the loop advanced from the wrong end: the last candidate is dropped and the
\* first one is taken again
NextCandidateFromEnd(st) ==
    LET rest == SubSeq(st.cands, 1, Len(st.cands) - 1)
    IN  IF rest = <<>>
        THEN NextChannel(st)
        ELSE [st EXCEPT !.cands = rest, !.pc = "check",
                        !.exV = "unread", !.exP = "unread"]

\* continue / the end of one round of for (const video of videos)
NextCandidate(st) ==
    LET rest == Tail(st.cands)
    IN  IF rest = <<>>
        THEN NextChannel(st)
        ELSE [st EXCEPT !.cands = rest, !.pc = "check",
                        !.exV = "unread", !.exP = "unread"]

\* the call of fetchAndSummarizeVideos(categoryFilter) and its SELECT of the
\* channels of that category
Start(r, f) ==
    /\ run[r].pc \in {"idle", "done", "caught"}
    /\ nInv < MaxInvocations
    /\ LET chs == SelectChannels(f)
       IN  /\ run' = [run EXCEPT ![r] =
                        [IdleRun EXCEPT !.filter = f, !.chans = chs,
                                        !.pc = AfterLoad(chs)]]
           /\ scen' = [v \in VideoIds |-> scen[v] /\ ChannelOf(v) \in Range(chs)]
    /\ nInv' = nInv + 1
    /\ ev' = NoEvent
    /\ UNCHANGED <<channels, addReq, calc, dropped, videos, pending, job,
                   attempts>>

\* const videos = await fetchLatestVideos(channel.channel_id, 24)
Discover(r, list) ==
    /\ run[r].pc = "discover"
    /\ LET ch == Head(run[r].chans)
       IN  /\ list \in DiscoveryResults(ch)
           /\ scen' = [v \in VideoIds |->
                         scen[v] /\ (ChannelOf(v) = ch => v \in Range(list))]
    /\ run' = [run EXCEPT ![r] =
                 IF list = <<>>
                 THEN NextChannel(@)
                 ELSE [@ EXCEPT !.cands = list, !.pc = "check"]]
    /\ ev' = NoEvent
    /\ UNCHANGED <<age, channels, cron, addReq, calc, dropped, videos,
                   pending, job, nInv, attempts>>

YesNo(b) == IF b THEN "yes" ELSE "no"

\* the pending_videos half of the test left out
SkipsVideosOnly(exV, exP) == exV = "yes"

\* if (existsInVideos.rows.length > 0 || existsInPending.rows.length > 0) continue
Skips(exV, exP) == exV = "yes" \/ exP = "yes"

\* once both queries of the Promise.all have answered: skip, or go on
Decide(st) ==
    IF st.exV = "unread" \/ st.exP = "unread"
    THEN st
    ELSE IF Skips(st.exV, st.exP)
         THEN NextCandidate(st)
         ELSE [st EXCEPT !.pc = "process"]

CheckOp(st) ==
    IF st.exV = "unread" \/ st.exP = "unread"
    THEN "check"
    ELSE IF Skips(st.exV, st.exP) THEN "skip" ELSE "new"

\* the operations an invocation has started and not yet seen resolve: the two
\* queries of the Promise.all are started together, every other await alone
InFlight(st) ==
    CASE st.pc = "check" ->
             { q \in {"existsInVideos", "existsInPending"} :
                 \/ q = "existsInVideos" /\ st.exV = "unread"
                 \/ q = "existsInPending" /\ st.exP = "unread" }
      [] st.pc \in {"idle", "done", "rejected", "caught"} -> {}
      [] OTHER -> { st.pc }

\* query("SELECT id FROM videos WHERE video_id = $1", [video.id])
CheckVideos(r) ==
    /\ run[r].pc = "check"
    /\ run[r].exV = "unread"
    /\ LET v  == Head(run[r].cands)
           st == [run[r] EXCEPT !.exV = YesNo(HasRow(videos, v))]
       IN  /\ run' = [run EXCEPT ![r] = Decide(st)]
           /\ ev' = Event(r, CheckOp(st), v, <<>>, <<>>, "none")
    /\ UNCHANGED <<age, channels, cron, addReq, calc, dropped, videos,
                   pending, job, nInv, attempts, scen>>

\* query("SELECT id FROM pending_videos WHERE video_id = $1", [video.id])
CheckPending(r) ==
    /\ run[r].pc = "check"
    /\ run[r].exP = "unread"
    /\ LET v  == Head(run[r].cands)
           st == [run[r] EXCEPT !.exP = YesNo(HasRow(pending, v))]
       IN  /\ run' = [run EXCEPT ![r] = Decide(st)]
           /\ ev' = Event(r, CheckOp(st), v, <<>>, <<>>, "none")
    /\ UNCHANGED <<age, channels, cron, addReq, calc, dropped, videos,
                   pending, job, nInv, attempts, scen>>

\* getTranscriptFromYouTube(video.id), then the INSERT into pending_videos, or
\* generateSummaryWithOpenRouter and the INSERT into videos
Process(r, t, s) ==
    /\ run[r].pc = "process"
    /\ LET v   == Head(run[r].cands)
           ch  == Head(run[r].chans)
           row == VideoRow(v, ch)
       IN  /\ attempts' = [attempts EXCEPT ![v] = 1]
           /\ scen' = [scen EXCEPT ![v] = @ /\ Unusable(t)]
           /\ IF Unusable(t)
              THEN IF /\ ~UniqueViolation(pending, PendingRow(v, ch))
                      /\ ForeignKeyViolation(channels, PendingRow(v, ch))
                   THEN \* the INSERT throws: the catch of this channel
                        /\ UNCHANGED <<videos, pending>>
                        /\ run' = [run EXCEPT ![r] = NextChannel(@)]
                        /\ ev' = Event(r, "throw", v, <<t>>, <<>>, "none")
                   ELSE /\ pending' = InsertOrIgnore(pending, PendingRow(v, ch))
                        /\ videos' = videos
                        /\ run' = [run EXCEPT ![r] = NextCandidate(@)]
                        /\ ev' = Event(r, "process", v, <<t>>, <<>>,
                                       IF pending' # pending
                                       THEN "pending" ELSE "none")
              ELSE IF \/ UniqueViolation(videos, row)
                      \/ ForeignKeyViolation(channels, row)
                   THEN \* the INSERT throws: the catch of this channel
                        /\ UNCHANGED <<videos, pending>>
                        /\ run' = [run EXCEPT ![r] = NextChannel(@)]
                        /\ ev' = Event(r, "throw", v, <<t>>, <<s>>, "none")
                   ELSE /\ videos' = Append(videos, row)
                        /\ pending' = pending
                        /\ run' = [run EXCEPT ![r] = NextCandidate(@)]
                        /\ ev' = Event(r, "process", v, <<t>>, <<s>>, "video")
    /\ UNCHANGED <<channels, cron, addReq, calc, dropped, job, nInv>>

---------------------------------------------------------------------------
(* processPendingVideos: the pending-queue pass *)

\* the end of one round of for (const row of pending)
NextRow(st) ==
    LET rest == Tail(st.snap)
    IN  [st EXCEPT !.snap = rest, !.pc = IF rest = <<>> THEN "done" ELSE "row"]

\* SELECT * FROM pending_videos ORDER BY added_at ASC; return if there is none
PassRead(r) ==
    /\ run[r].pc = "pass"
    /\ run' = [run EXCEPT ![r] =
                 [@ EXCEPT !.snap = pending, !.passes = @ + 1,
                           !.pc = IF Len(pending) = 0 THEN "done" ELSE "row"]]
    /\ ev' = NoEvent
    /\ UNCHANGED <<age, channels, cron, addReq, calc, dropped, videos,
                   pending, job, nInv, attempts, scen>>

\* the comparison written >= 0 : the row is dropped at its first failed retry
DiscardsAtFirstFailure(row) == row.retry_count >= 0

\* the comparison written >= 2 : the row is kept for one retry more
DiscardsAfterTwo(row) == row.retry_count >= 2

\* if (row.retry_count >= 1) discard, else retry once more
Discards(row) == row.retry_count >= 1

\* getTranscriptFromYouTube(row.video_id), then the DELETE or the UPDATE of the
\* pending row, or generateSummaryWithOpenRouter and the INSERT into videos
PassRow(r, t, s) ==
    /\ run[r].pc = "row"
    /\ LET row == Head(run[r].snap)
           v   == row.video_id
       IN  /\ attempts' = [attempts EXCEPT ![v] = @ + 1]
           /\ scen' = [scen EXCEPT ![v] = @ /\ Unusable(t)]
           /\ IF Unusable(t)
              THEN /\ pending' = IF Discards(row)
                                 THEN DeleteRow(pending, v)
                                 ELSE IncrementRetry(pending, v)
                   /\ videos' = videos
                   /\ run' = [run EXCEPT ![r] = NextRow(@)]
                   /\ ev' = Event(r, IF Discards(row) THEN "discard" ELSE "requeue",
                                  v, <<t>>, <<>>, "none")
              ELSE IF \/ PromotionRejected(videos, VideoRow(v, row.channel_id))
                      \/ /\ ~UniqueViolation(videos, VideoRow(v, row.channel_id))
                         /\ ForeignKeyViolation(channels,
                                                VideoRow(v, row.channel_id))
                   THEN \* the INSERT throws: the catch of this row
                        /\ UNCHANGED <<videos, pending>>
                        /\ run' = [run EXCEPT ![r] = NextRow(@)]
                        /\ ev' = Event(r, "throw", v, <<t>>, <<s>>, "none")
                   ELSE /\ videos' = InsertOrIgnore(videos,
                                                    VideoRow(v, row.channel_id))
                        /\ pending' = pending
                        /\ run' = [run EXCEPT ![r].pc = "unqueue"]
                        /\ ev' = Event(r, "promote", v, <<t>>, <<s>>,
                                       IF videos' # videos THEN "video" ELSE "none")
           /\ dropped' = IF Unusable(t) /\ Discards(row)
                          THEN dropped \cup {v}
                          ELSE dropped
    /\ UNCHANGED <<age, channels, cron, addReq, calc, job, nInv>>

\* await query("DELETE FROM pending_videos WHERE video_id = $1", [row.video_id])
PassDelete(r) ==
    /\ run[r].pc = "unqueue"
    /\ LET v == Head(run[r].snap).video_id
       IN  /\ pending' = DeleteRow(pending, v)
           /\ ev' = Event(r, "unqueue", v, <<>>, <<>>, "none")
    /\ run' = [run EXCEPT ![r] = NextRow(@)]
    /\ UNCHANGED <<age, channels, cron, addReq, calc, dropped, videos, job,
                   nInv, attempts, scen>>

---------------------------------------------------------------------------
(* fetchSingleVideo.ts: the single-video job *)

\* the catch that ends the job without a word to the jobs map
SVCatchSilent(st) == [st EXCEPT !.pc = "end"]

\* catch (error): jobs.set(jobId, { status: "error", error: message }) and
\* scheduleCleanup(jobId)
SVCatch(st) == [st EXCEPT !.status = "error", !.pc = "end"]

\* startSingleVideoJob: jobs.set(jobId, { status: "pending" })
SVStart(j, v) ==
    /\ job[j].status = "none"
    /\ job' = [job EXCEPT ![j] = [status |-> "pending", pc |-> "check", vid |-> v]]
    /\ ev' = NoEvent
    /\ UNCHANGED <<age, channels, cron, addReq, calc, dropped, videos,
                   pending, run, nInv, attempts, scen>>

\* 1. Check for duplicate
SVCheck(j) ==
    /\ job[j].pc = "check"
    /\ job' = [job EXCEPT ![j] =
                 IF HasRow(videos, @.vid)
                 THEN [@ EXCEPT !.status = "error", !.pc = "end"]
                 ELSE [@ EXCEPT !.pc = "work"]]
    /\ ev' = NoEvent
    /\ UNCHANGED <<age, channels, cron, addReq, calc, dropped, videos,
                   pending, run, nInv, attempts, scen>>

\* the job treating a missing transcript as the orchestrator does: the video is
\* queued for a retry
SVFinishQueues(j, meta, t, s) ==
    /\ job[j].pc = "work"
    /\ LET v   == job[j].vid
           row == VideoRow(v, MANUAL_CHANNEL_ID)
       IN  IF ~meta
           THEN /\ job' = [job EXCEPT ![j] = [@ EXCEPT !.status = "error", !.pc = "end"]]
                /\ videos' = videos
                /\ pending' = pending
                /\ ev' = Event(j, "single", v, <<>>, <<>>, "none")
           ELSE IF Unusable(t)
           THEN /\ job' = [job EXCEPT ![j] = [@ EXCEPT !.status = "error", !.pc = "end"]]
                /\ videos' = videos
                /\ pending' = InsertOrIgnore(pending, PendingRow(v, MANUAL_CHANNEL_ID))
                /\ ev' = Event(j, "single", v, <<t>>, <<>>, "none")
           ELSE IF \/ UniqueViolation(videos, row)
                   \/ ForeignKeyViolation(channels, row)
           THEN \* the INSERT throws: the catch of processSingleVideo
                /\ job' = [job EXCEPT ![j] = SVCatch(@)]
                /\ videos' = videos
                /\ pending' = pending
                /\ ev' = Event(j, "throw", v, <<t>>, <<s>>, "none")
           ELSE /\ job' = [job EXCEPT ![j] = [@ EXCEPT !.status = "done", !.pc = "end"]]
                /\ videos' = Append(videos, row)
                /\ pending' = pending
                /\ ev' = Event(j, "single", v, <<t>>, <<s>>, "video")
    /\ UNCHANGED <<age, channels, cron, addReq, calc, dropped, run,
                   nInv, attempts, scen>>

\* 2. metadata, 3. duration, 4. transcript, 5. summary, 6. INSERT INTO videos
SVFinish(j, meta, t, s) ==
    /\ job[j].pc = "work"
    /\ LET v   == job[j].vid
           row == VideoRow(v, MANUAL_CHANNEL_ID)
       IN  IF ~meta
           THEN /\ job' = [job EXCEPT ![j] = [@ EXCEPT !.status = "error", !.pc = "end"]]
                /\ videos' = videos
                /\ ev' = Event(j, "single", v, <<>>, <<>>, "none")
           ELSE IF Unusable(t)
           THEN /\ job' = [job EXCEPT ![j] = [@ EXCEPT !.status = "error", !.pc = "end"]]
                /\ videos' = videos
                /\ ev' = Event(j, "single", v, <<t>>, <<>>, "none")
           ELSE IF \/ UniqueViolation(videos, row)
                   \/ ForeignKeyViolation(channels, row)
           THEN \* the INSERT throws: the catch of processSingleVideo
                /\ job' = [job EXCEPT ![j] = SVCatch(@)]
                /\ videos' = videos
                /\ ev' = Event(j, "throw", v, <<t>>, <<s>>, "none")
           ELSE /\ job' = [job EXCEPT ![j] = [@ EXCEPT !.status = "done", !.pc = "end"]]
                /\ videos' = Append(videos, row)
                /\ ev' = Event(j, "single", v, <<t>>, <<s>>, "video")
    /\ UNCHANGED <<age, channels, cron, addReq, calc, dropped, pending, run,
                   nInv, attempts, scen>>

\* the timer set when the job is entered in the map, not when it ends
SVCleanupAnytime(j) ==
    /\ job[j].status # "none"
    /\ job' = [job EXCEPT ![j] = NoJob]
    /\ ev' = NoEvent
    /\ UNCHANGED <<age, channels, cron, addReq, calc, dropped, videos,
                   pending, run, nInv, attempts, scen>>

\* scheduleCleanup: setTimeout(() => jobs.delete(jobId), 5 * 60 * 1000)
SVCleanup(j) ==
    /\ job[j].pc = "end"
    /\ job' = [job EXCEPT ![j] = NoJob]
    /\ ev' = NoEvent
    /\ UNCHANGED <<age, channels, cron, addReq, calc, dropped, videos,
                   pending, run, nInv, attempts, scen>>

---------------------------------------------------------------------------
(* Failures: a query the database rejects, a discovery request that throws *)

\* the catch moved around the whole for loop: the first error ends the loop
CatchAroundLoop(st) ==
    [st EXCEPT !.chans = <<>>, !.cands = <<>>,
               !.exV = "unread", !.exP = "unread", !.pc = "pass"]

\* the try/catch of the channel left out: the error leaves
\* fetchAndSummarizeVideos
NoCatchChannel(st) == [st EXCEPT !.pc = "rejected"]

\* catch (error) of one round of for (const channel of channels): the error is
\* logged and the loop goes on with the next channel
CatchChannel(st) == NextChannel(st)

\* the try/catch of the row left out: the error leaves processPendingVideos
NoCatchRow(st) == [st EXCEPT !.pc = "rejected"]

\* catch (error) of one round of for (const row of pending): the error is
\* logged and the loop goes on with the next row
CatchRow(st) == NextRow(st)

Failure(a, v, t, s) == Event(a, "fail", v, t, s, "none")

\* the SELECT of the channels is rejected: the promise of
\* fetchAndSummarizeVideos rejects
StartFails(r, f) ==
    /\ run[r].pc \in {"idle", "done", "caught"}
    /\ nInv < MaxInvocations
    /\ run' = [run EXCEPT ![r] = [IdleRun EXCEPT !.filter = f, !.pc = "rejected"]]
    /\ scen' = [v \in VideoIds |-> FALSE]
    /\ nInv' = nInv + 1
    /\ ev' = Failure(r, "none", <<>>, <<>>)
    /\ UNCHANGED <<age, channels, addReq, calc, dropped, videos, pending, job,
                   attempts>>

\* fetchLatestVideos throws: fetch() rejects, or the body is not the JSON expected
DiscoverFails(r) ==
    /\ run[r].pc = "discover"
    /\ scen' = [v \in VideoIds |->
                  scen[v] /\ ChannelOf(v) # Head(run[r].chans)]
    /\ run' = [run EXCEPT ![r] = CatchChannel(@)]
    /\ ev' = Failure(r, "none", <<>>, <<>>)
    /\ UNCHANGED <<age, channels, cron, addReq, calc, dropped, videos,
                   pending, job, nInv, attempts>>

\* one of the two SELECTs of the skip check is rejected
CheckFails(r) ==
    /\ run[r].pc = "check"
    /\ run' = [run EXCEPT ![r] = CatchChannel(@)]
    /\ ev' = Failure(r, Head(run[r].cands), <<>>, <<>>)
    /\ UNCHANGED <<age, channels, cron, addReq, calc, dropped, videos,
                   pending, job, nInv, attempts, scen>>

\* the INSERT into pending_videos or into videos is rejected
ProcessFails(r, t, s) ==
    /\ run[r].pc = "process"
    /\ LET v == Head(run[r].cands)
       IN  /\ attempts' = [attempts EXCEPT ![v] = 1]
           /\ scen' = [scen EXCEPT ![v] = @ /\ Unusable(t)]
           /\ ev' = Failure(r, v, <<t>>, IF Unusable(t) THEN <<>> ELSE <<s>>)
    /\ run' = [run EXCEPT ![r] = CatchChannel(@)]
    /\ UNCHANGED <<age, channels, cron, addReq, calc, dropped, videos,
                   pending, job, nInv>>

\* the SELECT of processPendingVideos is rejected, outside every try: the
\* promise of fetchAndSummarizeVideos rejects
PassReadFails(r) ==
    /\ run[r].pc = "pass"
    /\ run' = [run EXCEPT ![r] = [@ EXCEPT !.passes = @ + 1, !.pc = "rejected"]]
    /\ ev' = Failure(r, "none", <<>>, <<>>)
    /\ UNCHANGED <<age, channels, cron, addReq, calc, dropped, videos,
                   pending, job, nInv, attempts, scen>>

\* the DELETE or the UPDATE of the pending row, or the INSERT into videos, is
\* rejected
PassRowFails(r, t, s) ==
    /\ run[r].pc = "row"
    /\ LET v == Head(run[r].snap).video_id
       IN  /\ attempts' = [attempts EXCEPT ![v] = @ + 1]
           /\ scen' = [scen EXCEPT ![v] = @ /\ Unusable(t)]
           /\ ev' = Failure(r, v, <<t>>, IF Unusable(t) THEN <<>> ELSE <<s>>)
    /\ run' = [run EXCEPT ![r] = CatchRow(@)]
    /\ UNCHANGED <<age, channels, cron, addReq, calc, dropped, videos,
                   pending, job, nInv>>

\* the DELETE that follows the INSERT into videos is rejected
PassDeleteFails(r) ==
    /\ run[r].pc = "unqueue"
    /\ run' = [run EXCEPT ![r] = CatchRow(@)]
    /\ ev' = Failure(r, Head(run[r].snap).video_id, <<>>, <<>>)
    /\ UNCHANGED <<age, channels, cron, addReq, calc, dropped, videos,
                   pending, job, nInv, attempts, scen>>

\* fetchAndSummarizeVideos(...).catch((error) => console.error(...)): the
\* handler every caller attaches to the promise
CallerCatches(r) ==
    /\ run[r].pc = "rejected"
    /\ run' = [run EXCEPT ![r].pc = "caught"]
    /\ ev' = NoEvent
    /\ UNCHANGED <<age, channels, cron, addReq, calc, dropped, videos,
                   pending, job, nInv, attempts, scen>>

\* the SELECT of the duplicate check is rejected: the catch of
\* processSingleVideo
SVCheckFails(j) ==
    /\ job[j].pc = "check"
    /\ job' = [job EXCEPT ![j] = SVCatch(@)]
    /\ ev' = Failure(j, job[j].vid, <<>>, <<>>)
    /\ UNCHANGED <<age, channels, cron, addReq, calc, dropped, videos,
                   pending, run, nInv, attempts, scen>>

\* the INSERT into videos is rejected: the catch of processSingleVideo
SVFinishFails(j, t, s) ==
    /\ job[j].pc = "work"
    /\ ~Unusable(t)
    /\ job' = [job EXCEPT ![j] = SVCatch(@)]
    /\ ev' = Failure(j, job[j].vid, <<t>>, <<s>>)
    /\ UNCHANGED <<age, channels, cron, addReq, calc, dropped, videos,
                   pending, run, nInv, attempts, scen>>

---------------------------------------------------------------------------
(* Specifications *)

\* no other invocation of the orchestrator is under way
NoneRunning == \A r \in Runs : run[r].pc \in {"idle", "done", "caught"}

StartAlone(r, f) == NoneRunning /\ Start(r, f) /\ UNCHANGED <<cron, age>>

RunStep(r) ==
    \/ \E list \in AllDiscoveryResults : Discover(r, list)
    \/ CheckVideos(r)
    \/ CheckPending(r)
    \/ \E t \in TranscriptResults, s \in Summaries :
          Process(r, t, s) /\ UNCHANGED age
    \/ PassRead(r)
    \/ \E t \in TranscriptResults, s \in Summaries : PassRow(r, t, s)
    \/ PassDelete(r)

JobStep(j) ==
    \/ \E v \in VideoIds : SVStart(j, v)
    \/ SVCheck(j)
    \/ \E meta \in BOOLEAN, t \in TranscriptResults, s \in Summaries :
          SVFinish(j, meta, t, s)
    \/ SVCleanup(j)

\* each slot holds one invocation, so that as many invocations as there are
\* slots overlap in every way
StartOnce(r, f) ==
    run[r].pc = "idle" /\ Start(r, f) /\ UNCHANGED <<cron, age>>

\* every trigger may overlap every other: no run-level lock
Next ==
    \/ \E r \in Runs, f \in Filters : StartOnce(r, f)
    \/ \E r \in Runs : RunStep(r)
    \/ \E j \in OneJob : JobStep(j)

Spec == Init /\ [][Next]_vars

\* the invocations of the orchestrator follow one another; single-video jobs
\* run alongside
NextSeq ==
    \/ \E f \in Filters : StartAlone("r1", f)
    \/ RunStep("r1")
    \/ \E j \in OneJob : JobStep(j)

SpecSeq == Init /\ [][NextSeq]_vars

\* the invocations of the orchestrator follow one another and nothing else
\* writes the tables
NextSolo ==
    \/ \E f \in Filters : StartAlone("r1", f)
    \/ RunStep("r1")

SpecSolo == Init /\ [][NextSolo]_vars

FaultStep(r) ==
    \/ DiscoverFails(r)
    \/ CheckFails(r)
    \/ \E t \in TranscriptResults, s \in Summaries : ProcessFails(r, t, s)
    \/ PassReadFails(r)
    \/ \E t \in TranscriptResults, s \in Summaries : PassRowFails(r, t, s)
    \/ PassDeleteFails(r)

StartFailsAlone(r, f) == NoneRunning /\ StartFails(r, f) /\ UNCHANGED cron

\* the invocations of the orchestrator follow one another, nothing else writes
\* the tables, and every query and every discovery request may fail
NextErr ==
    \/ \E f \in Filters : StartAlone("r1", f)
    \/ \E f \in Filters : StartFailsAlone("r1", f)
    \/ RunStep("r1")
    \/ FaultStep("r1")
    \/ CallerCatches("r1")

\* every await of an invocation under way settles: the promise resolves or rejects
SpecErr ==
    /\ Init
    /\ [][NextErr]_vars
    /\ WF_vars(RunStep("r1") \/ FaultStep("r1"))
    /\ WF_vars(CallerCatches("r1"))

---------------------------------------------------------------------------
(* generateSummaryWithOpenRouter on texts *)

Min(S) == CHOOSE x \in S : \A y \in S : x <= y

Max(S) == CHOOSE x \in S : \A y \in S : x >= y

\* String.prototype.substring(0, n)
Substring0(str, n) == SubSeq(str, 1, IF n < Len(str) THEN n ELSE Len(str))

\* "..."
Ellipsis == << ".", ".", "." >>

\* String.prototype.trim()
Trim(str) ==
    LET inked == { i \in DOMAIN str : str[i] # " " }
    IN  IF inked = {} THEN <<>> ELSE SubSeq(str, Min(inked), Max(inked))

\* the lengths of the transcripts handed to the summarizer
TextLens ==
    { 0, 1, MinTranscriptLen - 1, MinTranscriptLen,
      FallbackChars - 1, FallbackChars, FallbackChars + 1,
      MaxChars - 1, MaxChars, MaxChars + 1 }

TextOf(n, k) ==
    [i \in 1..n |->
        CASE (i + k) % 3 = 0 -> "a"
          [] (i + k) % 3 = 1 -> "b"
          [] OTHER -> " "]

Texts == { TextOf(n, k) : n \in TextLens, k \in 0..2 }

\* data.choices[0].message.content of an answer that has one
Contents == { << " ", "o", "k", " " >>, << "o", "k" >>, <<>> }

\* what the environment and the service do with one call: no OPENROUTER_API_KEY,
\* fetch() rejects, a status that is not ok, a body that is not JSON, a JSON
\* body without choices[0].message.content, or an answer
Answers ==
    { [kind |-> k, content |-> <<>>] :
        k \in {"nokey", "unreachable", "status", "badjson", "nochoices"} }
    \cup { [kind |-> "ok", content |-> c] : c \in Contents }

\* the comparison written >= : a transcript of exactly maxChars is cut too
TruncateFromMaxChars(transcript) ==
    IF Len(transcript) >= MaxChars
    THEN Substring0(transcript, MaxChars) \o Ellipsis
    ELSE transcript

\* transcript.length > maxChars ? transcript.substring(0, maxChars) + "..." : transcript
Truncate(transcript) ==
    IF Len(transcript) > MaxChars
    THEN Substring0(transcript, MaxChars) \o Ellipsis
    ELSE transcript

\* transcript.substring(0, 300) + "..."
Fallback(transcript) == Substring0(transcript, FallbackChars) \o Ellipsis

\* the body of the try: it returns a value or throws
SummaryTry(transcript, answer) ==
    CASE answer.kind = "nokey" ->
            [throws |-> FALSE, value |-> Fallback(transcript), submitted |-> <<>>]
      [] answer.kind = "ok" ->
            [throws |-> FALSE, value |-> Trim(answer.content),
             submitted |-> << Truncate(transcript) >>]
      [] OTHER ->
            [throws |-> TRUE, value |-> <<>>,
             submitted |-> << Truncate(transcript) >>]

\* the catch left out: the error leaves the function
SummaryRethrow(transcript, tried) ==
    [raised |-> TRUE, value |-> <<>>, submitted |-> tried.submitted]

\* catch (error) { return transcript.substring(0, 300) + "..." }
SummaryCatch(transcript, tried) ==
    [raised |-> FALSE, value |-> Fallback(transcript),
     submitted |-> tried.submitted]

generateSummaryWithOpenRouter(transcript, answer) ==
    LET tried == SummaryTry(transcript, answer)
    IN  IF tried.throws
        THEN SummaryCatch(transcript, tried)
        ELSE [raised |-> FALSE, value |-> tried.value,
              submitted |-> tried.submitted]

SummaryCalls ==
    { [fn |-> "summary", pc |-> "in", transcript |-> t] : t \in Texts }

\* const summary = await generateSummaryWithOpenRouter(transcript, video.title)
Summarize(answer) ==
    /\ calc.fn = "summary"
    /\ calc.pc = "in"
    /\ calc' = [fn |-> "summary", pc |-> "out", transcript |-> calc.transcript,
                answer |-> answer,
                result |-> generateSummaryWithOpenRouter(calc.transcript, answer)]
    /\ UNCHANGED <<age, channels, cron, addReq, videos, pending, run, job,
                   nInv, attempts, scen, ev, dropped>>

\* the INSERT INTO videos that follows the call at its three call sites, all
\* behind the test of the transcript's length: the summary column is the value
\* returned; an error raised by the call goes to the caller's catch
StoreSummary ==
    /\ calc.fn = "summary"
    /\ calc.pc = "out"
    /\ Len(calc.transcript) >= MinTranscriptLen
    /\ calc' = [fn |-> "summary",
                pc |-> IF calc.result.raised THEN "failed" ELSE "stored",
                transcript |-> calc.transcript,
                answer |-> calc.answer,
                result |-> calc.result,
                row |-> IF calc.result.raised
                        THEN <<>>
                        ELSE << [summary |-> calc.result.value] >>]
    /\ UNCHANGED <<age, channels, cron, addReq, videos, pending, run, job,
                   nInv, attempts, scen, ev, dropped>>

---------------------------------------------------------------------------
(* parseIso8601Duration and fetchVideoDurations *)

DigitVal(c) ==
    CASE c = "0" -> 0 [] c = "1" -> 1 [] c = "2" -> 2 [] c = "3" -> 3
      [] c = "4" -> 4 [] c = "5" -> 5 [] c = "6" -> 6 [] c = "7" -> 7
      [] c = "8" -> 8 [] c = "9" -> 9

\* \d
IsDigit(c) == c \in {"0", "1", "2", "3", "4", "5", "6", "7", "8", "9"}

\* parseInt(digits, 10)
RECURSIVE ParseInt(_)
ParseInt(digits) ==
    IF digits = <<>>
    THEN 0
    ELSE 10 * ParseInt(SubSeq(digits, 1, Len(digits) - 1))
         + DigitVal(digits[Len(digits)])

\* \d+ at position i: the length of the longest run of digits from there
RECURSIVE DigitRun(_, _)
DigitRun(str, i) ==
    IF i <= Len(str) /\ IsDigit(str[i]) THEN 1 + DigitRun(str, i + 1) ELSE 0

\* (?:(\d+)U)? at position i: the group captures the digits when the letter U
\* follows them, and is passed over, undefined, when it does not
Group(str, i, unit) ==
    LET n == DigitRun(str, i)
    IN  IF n > 0 /\ i + n <= Len(str) /\ str[i + n] = unit
        THEN [found |-> TRUE, digits |-> SubSeq(str, i, i + n - 1), next |-> i + n + 1]
        ELSE [found |-> FALSE, digits |-> <<>>, next |-> i]

\* duration.match(/PT.../): the pattern has no anchor, the match starts at the
\* first "PT" of the string, wherever it is; 0 when there is none
MatchStart(str) ==
    LET starts == { i \in 1..(Len(str) - 1) : str[i] = "P" /\ str[i + 1] = "T" }
    IN  IF starts = {} THEN 0 ELSE Min(starts)

\* match[n] ?? "0"
OrZero(group) == IF group.found THEN group.digits ELSE << "0" >>

parseIso8601Duration(duration) ==
    LET at == MatchStart(duration)
    IN  IF at = 0
        THEN 0
        ELSE LET hours   == Group(duration, at + 2, "H")
                 minutes == Group(duration, hours.next, "M")
                 seconds == Group(duration, minutes.next, "S")
             IN  ParseInt(OrZero(hours)) * 3600
                 + ParseInt(OrZero(minutes)) * 60
                 + ParseInt(OrZero(seconds))

DurationAlphabet == {"P", "T", "H", "M", "S", "1", "X"}

\* tokens the API is known to send, and the two of the documentation
KnownTokens ==
    { << "P", "T", "1", "H", "2", "M", "3", "S" >>,
      << "P", "T", "5", "M" >>,
      << "P", "T", "1", "5", "M", "3", "3", "S" >>,
      << "P", "1", "D", "T", "1", "H" >>,
      << "P", "0", "D" >> }

Tokens ==
    KnownTokens
    \cup UNION { [1..n -> DurationAlphabet] : n \in 0..MaxTokenLen }

DurationCalls ==
    { [fn |-> "duration", pc |-> "in", token |-> tok] : tok \in Tokens }

ParseDuration ==
    /\ calc.fn = "duration"
    /\ calc.pc = "in"
    /\ calc' = [fn |-> "duration", pc |-> "out", token |-> calc.token,
                result |-> parseIso8601Duration(calc.token)]
    /\ UNCHANGED <<age, channels, cron, addReq, videos, pending, run, job,
                   nInv, attempts, scen, ev, dropped>>

\* the items of the videos.list answer: an item is whole (it has
\* contentDetails.duration, a string) or broken (it has not)
Items ==
    { [id |-> v, whole |-> w, duration |-> tok] :
        v \in VideoIds, w \in BOOLEAN,
        tok \in { << "P", "T", "5", "M" >>, << "X" >> } }

ItemLists == { <<>> } \cup { << a >> : a \in Items }
             \cup { << a, b >> : a \in Items, b \in Items }

\* what the environment and the API do with one call
DurationWorlds ==
    { [kind |-> k, items |-> <<>>] :
        k \in {"nokey", "unreachable", "status", "badjson", "noitems"} }
    \cup { [kind |-> "items", items |-> l] : l \in ItemLists }

EmptyMap == [v \in {} |-> 0]

\* map.set(key, value)
MapSet(map, key, value) ==
    [k \in DOMAIN map \cup {key} |-> IF k = key THEN value ELSE map[k]]

\* a broken item taken for a duration of 0 instead of throwing
ItemValueLenient(item) ==
    [throws |-> FALSE,
     value |-> IF item.whole THEN parseIso8601Duration(item.duration) ELSE 0]

\* parseIso8601Duration(item.contentDetails.duration): a TypeError for an
\* item without contentDetails or without a string there
ItemValue(item) ==
    [throws |-> ~item.whole,
     value |-> IF item.whole THEN parseIso8601Duration(item.duration) ELSE 0]

\* for (const item of data.items) map.set(...): the first item that throws
\* ends the loop with the map as it stands
RECURSIVE SetAll(_, _)
SetAll(items, map) ==
    IF items = <<>>
    THEN [throws |-> FALSE, map |-> map]
    ELSE IF ItemValue(Head(items)).throws
         THEN [throws |-> TRUE, map |-> map]
         ELSE SetAll(Tail(items),
                     MapSet(map, Head(items).id, ItemValue(Head(items)).value))

\* the body of the try: fetch, response.ok, response.json(), data.items, the loop
DurationsTry(world) ==
    CASE world.kind \in {"unreachable", "badjson"} ->
            [throws |-> TRUE, map |-> EmptyMap]
      [] world.kind \in {"status", "noitems"} ->
            [throws |-> FALSE, map |-> EmptyMap]
      [] OTHER -> SetAll(world.items, EmptyMap)

\* catch (error) { console.error(...) }  return map
DurationsCatch(tried) == [raised |-> FALSE, map |-> tried.map]

fetchVideoDurations(videoIds, world) ==
    IF videoIds = <<>> \/ world.kind = "nokey"
    THEN [raised |-> FALSE, map |-> EmptyMap]
    ELSE LET tried == DurationsTry(world)
         IN  IF tried.throws
             THEN DurationsCatch(tried)
             ELSE [raised |-> FALSE, map |-> tried.map]

\* durationsMap.get(id) ?? null
DurationSeconds(map, id) == IF id \in DOMAIN map THEN << map[id] >> ELSE <<>>

IdLists == { <<>>, << "v1" >>, << "v2" >>, << "v1", "v2" >> }

ResolverCalls ==
    { [fn |-> "durations", pc |-> "in", videoIds |-> ids, world |-> w] :
        ids \in IdLists, w \in DurationWorlds }

\* const durationsMap = await fetchVideoDurations(ids), then durationSeconds of
\* every video asked for
ResolveDurations ==
    /\ calc.fn = "durations"
    /\ calc.pc = "in"
    /\ LET got == fetchVideoDurations(calc.videoIds, calc.world)
           map == got.map
       IN  calc' = [fn |-> "durations", pc |-> "out",
                    videoIds |-> calc.videoIds, world |-> calc.world,
                    raised |-> got.raised,
                    keys |-> DOMAIN map,
                    durationSeconds |->
                        [i \in DOMAIN calc.videoIds |->
                            DurationSeconds(map, calc.videoIds[i])]]
    /\ UNCHANGED <<age, channels, cron, addReq, videos, pending, run, job,
                   nInv, attempts, scen, ev, dropped>>

\* one call of one of the three functions, with any argument
InitFn ==
    /\ videos = <<>>
    /\ pending = <<>>
    /\ run = [r \in Runs |-> IdleRun]
    /\ job = [j \in Jobs |-> NoJob]
    /\ nInv = 0
    /\ attempts = [v \in VideoIds |-> 0]
    /\ scen = [v \in VideoIds |-> TRUE]
    /\ ev = NoEvent
    /\ dropped = {}
    /\ channels = ChannelRows \o << SentinelRow >>
    /\ cron = NoCron
    /\ addReq = [q \in Reqs |-> NoRequest]
    /\ age = [v \in VideoIds |-> NoAge]
    /\ calc \in SummaryCalls \cup DurationCalls \cup ResolverCalls

NextFn ==
    \/ \E answer \in Answers : Summarize(answer)
    \/ StoreSummary
    \/ ParseDuration
    \/ ResolveDurations

SpecFn == InitFn /\ [][NextFn]_vars

---------------------------------------------------------------------------
(* The triggers: index.ts, lib/db.ts (the cron manager) and the admin routes *)

\* categoryFilter: string = "main"
DefaultFilter == << "m", "a", "i", "n" >>

\* the bodies of POST /fetch-category requests
CategoryInputs ==
    { << "t", "e", "c", "h" >>, << " ", "T", "e", "c", "h" >>,
      << "M", "a", "i", "n" >>, << " " >> }

\* the server is listening: app.listen has called back
Listening == cron.task # "null"

\* initCron(): task = cron.schedule(...); active = true
initCron(c) == [c EXCEPT !.task = "started", !.active = TRUE, !.asked = "init"]

\* getCronStatus(): { active }
getCronStatus == [active |-> cron.active]

\* app.listen(PORT, () => { fetchAndSummarizeVideos().catch(...); initCron() })
Boot(r) ==
    /\ ~Listening
    /\ Start(r, DefaultFilter)
    /\ UNCHANGED age
    /\ cron' = [initCron(cron) EXCEPT !.last = "startup"]

\* the callback without its test: every tick calls the orchestrator
CallbackAlways(c) == TRUE

\* if (!active) return;
CallbackRuns(c) == c.active

\* the callback of cron.schedule("0 5 * * *", ...). node-cron is no part of the
\* repository: a tick may come whenever the task exists
Tick(r) ==
    /\ Listening
    /\ CallbackRuns(cron)
    /\ Start(r, DefaultFilter)
    /\ UNCHANGED age
    /\ cron' = [cron EXCEPT !.last = "tick"]

\* the test of the task left out: the call takes effect before initCron too
SetCronStatusWithoutTask(enabled) ==
    /\ cron' = [cron EXCEPT !.active = enabled,
                            !.asked = IF enabled THEN "resume" ELSE "pause"]
    /\ UNCHANGED <<age, channels, addReq, calc, dropped, videos, pending, run,
                   job, nInv, attempts, scen, ev>>

\* setCronStatus(enabled), called by POST /cron-status
SetCronStatus(enabled) ==
    /\ cron' = IF cron.task = "null"
               THEN \* if (!task) return;
                    [cron EXCEPT !.asked = IF enabled THEN "resume" ELSE "pause"]
               ELSE [cron EXCEPT !.task = IF enabled THEN "started" ELSE "stopped",
                                 !.active = enabled,
                                 !.asked = IF enabled THEN "resume" ELSE "pause"]
    /\ UNCHANGED <<age, channels, addReq, calc, dropped, videos, pending, run,
                   job, nInv, attempts, scen, ev>>

\* POST /trigger-fetch: fetchAndSummarizeVideos("main").catch(...)
ManualTrigger(r) ==
    /\ Listening
    /\ Start(r, DefaultFilter)
    /\ UNCHANGED age
    /\ cron' = [cron EXCEPT !.last = "manual"]

\* POST /fetch-category: the category trimmed and lowered, refused when it is
\* empty or "main"
CategoryTrigger(r, category) ==
    LET normalizedCategory == Lower(Trim(category))
    IN  /\ Listening
        /\ normalizedCategory # <<>>
        /\ normalizedCategory # DefaultFilter
        /\ Start(r, normalizedCategory)
        /\ UNCHANGED age
        /\ cron' = [cron EXCEPT !.last = "category"]

\* the triggers and the switch of the scheduled one; the invocations of the
\* orchestrator follow one another
NextCron ==
    \/ NoneRunning /\ Boot("r1")
    \/ NoneRunning /\ Tick("r1")
    \/ NoneRunning /\ ManualTrigger("r1")
    \/ \E c \in CategoryInputs : NoneRunning /\ CategoryTrigger("r1", c)
    \/ \E b \in BOOLEAN : Listening /\ SetCronStatus(b)
    \/ RunStep("r1")

SpecCron == Init /\ [][NextCron]_vars

\* initCron() called on its own
InitCron ==
    /\ cron' = initCron(cron)
    /\ UNCHANGED <<age, channels, addReq, calc, dropped, videos, pending, run,
                   job, nInv, attempts, scen, ev>>

\* the functions the cron manager exports, called in any order, and the
\* scheduled task with the invocations it starts
NextMgr ==
    \/ InitCron
    \/ \E b \in BOOLEAN : SetCronStatus(b)
    \/ NoneRunning /\ Tick("r1")
    \/ RunStep("r1")

SpecMgr == Init /\ [][NextMgr]_vars

---------------------------------------------------------------------------
(* The channel routes: POST /api/channels and DELETE /api/channels/:id *)

\* ON DELETE CASCADE: the rows of the deleted channel go with it
Cascade(tbl, c) == SelectSeq(tbl, LAMBDA row : row.channel_id # c)

\* SELECT id FROM youtube_channels WHERE id = $1 finds the row, then
\* DELETE FROM youtube_channels WHERE id = $1
DeleteChannel(c) ==
    /\ c \in ChannelIds(channels)
    /\ channels' = SelectSeq(channels, LAMBDA row : row.id # c)
    /\ videos' = Cascade(videos, c)
    /\ pending' = Cascade(pending, c)
    /\ ev' = NoEvent
    /\ UNCHANGED <<age, cron, addReq, calc, dropped, run, job, nInv, attempts,
                   scen>>

\* the invocations of the orchestrator follow one another while channels are
\* deleted
NextChan ==
    \/ \E f \in Filters : StartAlone("r1", f)
    \/ RunStep("r1")
    \/ \E c \in ChannelIds(channels) : DeleteChannel(c)

SpecChan == Init /\ [][NextChan]_vars

\* the external channel ids the add-channel requests resolve to
ExtIds == {"UC1", "UC9"}

\* gen_random_uuid() of the rows that are added
NewIds == {"n1", "n2", "n3"}

\* SELECT id FROM youtube_channels WHERE channel_id = $1 : rows.length > 0
ChannelExists(tbl, ext) == \E i \in DOMAIN tbl : tbl[i].channel_id = ext

\* the column declared without UNIQUE
NoChannelUnique(tbl, ext) == FALSE

\* channel_id VARCHAR(255) UNIQUE NOT NULL
ChannelUniqueViolation(tbl, ext) == ChannelExists(tbl, ext)

\* category VARCHAR(50) NOT NULL DEFAULT 'main'
NewChannelRow(id, ext) ==
    [id |-> id, channel_id |-> ext, category |-> DefaultFilter]

\* POST /api/channels: the channel is resolved, then "Check if channel already
\* exists"
AddCheck(q, ext) ==
    /\ addReq[q].pc = "idle"
    /\ addReq' = [addReq EXCEPT ![q] =
                    IF ChannelExists(channels, ext)
                    THEN [pc |-> "replied", ext |-> ext, status |-> "409"]
                    ELSE [pc |-> "insert", ext |-> ext, status |-> "none"]]
    /\ ev' = NoEvent
    /\ UNCHANGED <<age, channels, cron, calc, dropped, videos, pending, run,
                   job, nInv, attempts, scen>>

\* INSERT INTO youtube_channels ... RETURNING *, answered 201; an INSERT that
\* throws is answered 500 by the catch of the handler
AddInsert(q) ==
    /\ addReq[q].pc = "insert"
    /\ \E id \in NewIds : id \notin ChannelIds(channels)
    /\ LET ext == addReq[q].ext
           id  == CHOOSE n \in NewIds : n \notin ChannelIds(channels)
       IN  IF ChannelUniqueViolation(channels, ext)
           THEN /\ channels' = channels
                /\ addReq' = [addReq EXCEPT ![q] =
                                [pc |-> "replied", ext |-> ext, status |-> "500"]]
           ELSE /\ channels' = Append(channels, NewChannelRow(id, ext))
                /\ addReq' = [addReq EXCEPT ![q] =
                                [pc |-> "replied", ext |-> ext, status |-> "201"]]
    /\ ev' = NoEvent
    /\ UNCHANGED <<age, cron, calc, dropped, videos, pending, run, job, nInv,
                   attempts, scen>>

\* the response is sent and the handler returns
AddReturn(q) ==
    /\ addReq[q].pc = "replied"
    /\ addReq' = [addReq EXCEPT ![q] = NoRequest]
    /\ ev' = NoEvent
    /\ UNCHANGED <<age, channels, cron, calc, dropped, videos, pending, run,
                   job, nInv, attempts, scen>>

\* add-channel requests handled at the same time, and deletions
NextAdd ==
    \/ \E q \in Reqs, ext \in ExtIds : AddCheck(q, ext)
    \/ \E q \in Reqs : AddInsert(q)
    \/ \E q \in Reqs : AddReturn(q)
    \/ \E c \in ChannelIds(channels) : DeleteChannel(c)

SpecAdd == Init /\ [][NextAdd]_vars

---------------------------------------------------------------------------
(* The single-video jobs on their own *)

\* jobs.get(jobId)
getJobStatus(j) == IF job[j].status = "none" THEN "undefined" ELSE job[j].status

\* GET /fetch-single-video/:jobId
PollJob(j) ==
    IF getJobStatus(j) = "undefined"
    THEN [status |-> "404", body |-> "Job not found or expired"]
    ELSE [status |-> "200", body |-> getJobStatus(j)]

\* what a job does once it is started
JobProgress(j) ==
    \/ SVCheck(j)
    \/ \E meta \in BOOLEAN, t \in TranscriptResults, s \in Summaries :
          SVFinish(j, meta, t, s)
    \/ SVCheckFails(j)
    \/ \E t \in TranscriptResults, s \in Summaries : SVFinishFails(j, t, s)
    \/ SVCleanup(j)

\* two jobs at the same time, every query of which may fail
NextJob ==
    \/ \E j \in Jobs, v \in VideoIds : SVStart(j, v)
    \/ \E j \in Jobs : JobProgress(j)

\* every await of a job settles and every timer set fires
SpecJob ==
    /\ Init
    /\ [][NextJob]_vars
    /\ \A j \in Jobs : WF_vars(JobProgress(j))

---------------------------------------------------------------------------
(* The invocations counted from the one that queued a video *)

\* the call of fetchAndSummarizeVideos, counted for every row that is queued
StartAged(r, f) ==
    /\ NoneRunning
    /\ Start(r, f)
    /\ age' = [v \in VideoIds |->
                 IF HasRow(pending, v)
                 THEN [all |-> age[v].all + 1,
                       matching |-> age[v].matching +
                                    IF SelectChannels(f) # <<>> THEN 1 ELSE 0]
                 ELSE age[v]]
    /\ UNCHANGED cron

\* the step of the channel loop that queues a video starts its count
ProcessAged(r, t, s) ==
    /\ Process(r, t, s)
    /\ age' = IF ev'.made = "pending"
              THEN [age EXCEPT ![ev'.vid] = [all |-> 1, matching |-> 1]]
              ELSE age

\* the invocations of the orchestrator follow one another, nothing else writes
\* the tables and no query fails
NextAge ==
    \/ \E f \in Filters : StartAged("r1", f)
    \/ \E list \in AllDiscoveryResults : Discover("r1", list)
    \/ CheckVideos("r1")
    \/ CheckPending("r1")
    \/ \E t \in TranscriptResults, s \in Summaries : ProcessAged("r1", t, s)
    \/ PassRead("r1")
    \/ \E t \in TranscriptResults, s \in Summaries : PassRow("r1", t, s)
    \/ PassDelete("r1")

SpecAge == Init /\ [][NextAge]_vars

---------------------------------------------------------------------------
(* Claims *)

Present(v) == HasRow(videos, v) \/ HasRow(pending, v)

\* the invocation in slot r has returned
Ended(r) == run[r].pc = "done"

\* C1: in every reachable state, the states inside a run and under overlapping
\* invocations and single-video jobs included, no external video id is in both
\* the videos table and the pending_videos table.
C1_OneTablePerVideo ==
    \A v \in VideoIds : ~(HasRow(videos, v) /\ HasRow(pending, v))

\* C2: with the invocations of the orchestrator run one after the other, no
\* external video id ever has two rows in videos, nor two rows in
\* pending_videos.
C2_NoDuplicateRows ==
    \A v \in VideoIds : Count(videos, v) <= 1 /\ Count(pending, v) <= 1

\* a second invocation was handed a video the first one had stored, and skipped it
C2_Witness ==
    /\ nInv = 2
    /\ ev.op = "skip"
    /\ HasRow(videos, ev.vid)

\* C3: the pending-queue pass deletes a row for lack of a usable transcript
\* exactly at the row's second failed retry in a row (attempts counts the first
\* extraction of the channel loop and every retry), never at the first, which
\* only sets retry_count to 1 and leaves the row queued.
C3_DiscardOnSecondFailedRetry ==
    /\ ev.op = "requeue" =>
          /\ attempts[ev.vid] - 1 = 1
          /\ HasRow(pending, ev.vid)
          /\ RowOf(pending, ev.vid).retry_count = 1
    /\ ev.op = "discard" =>
          /\ attempts[ev.vid] - 1 = 2
          /\ ~HasRow(pending, ev.vid)

\* a row was just deleted for lack of a transcript
C3_Witness ==
    /\ ev.op = "discard"
    /\ ev.transcript # <<>>
    /\ ~HasRow(pending, ev.vid)

InPendingWith(v, n) ==
    HasRow(pending, v) /\ RowOf(pending, v).retry_count = n

\* C4: for a video that discovery returns in every run and whose transcript
\* stays unusable: after invocation 1 it is pending with retry_count 0, after
\* invocation 2 with retry_count 1, after invocation 3 it is not pending, and it
\* is never in videos.
C4_ThreeRunScenario ==
    \A v \in VideoIds :
        scen[v] =>
            /\ ~HasRow(videos, v)
            /\ (Ended("r1") /\ nInv = 1) => InPendingWith(v, 0)
            /\ (Ended("r1") /\ nInv = 2) => InPendingWith(v, 1)
            /\ (Ended("r1") /\ nInv = 3) => ~HasRow(pending, v)

\* C5: a video whose transcript never becomes usable has had exactly 2
\* transcript extractions (the first one and 1 retry) when its pending row is
\* deleted.
C5_TwoAttemptsInAll ==
    ev.op = "discard" => attempts[ev.vid] = 2

\* the invocation in slot r takes this step
Steps(r) == run'[r] # run[r]

\* C6: a candidate whose external id is in videos or in pending_videos when
\* the channel loop checks it gets no transcript extraction, no summarization
\* and no insert from the loop, in this run and in every later one while the
\* row is there.
C6_KnownIdsAreSkipped ==
    [][\A r \in Runs :
          (/\ Steps(r)
           /\ run[r].pc \in {"check", "process"}
           /\ Present(Head(run[r].cands)))
          => /\ run'[r].pc # "process"
             /\ ev'.transcript = <<>>
             /\ ev'.summary = <<>>
             /\ ev'.made = "none"
             /\ videos' = videos
             /\ pending' = pending
             /\ attempts' = attempts]_vars

\* a later invocation skips an id that is still queued
C6_Witness ==
    /\ nInv = 2
    /\ ev.op = "skip"
    /\ HasRow(pending, ev.vid)

\* C7: for a new candidate (id in neither table) the channel loop creates
\* exactly one row: a videos row, after a summarizer call, if and only if the
\* transcript is there and has at least 100 characters; otherwise a
\* pending_videos row with retry_count 0 and no summarizer call.
C7_OneRowPerNewCandidate ==
    [][\A r \in Runs :
          (/\ Steps(r)
           /\ run[r].pc = "process"
           /\ ~Present(Head(run[r].cands)))
          => LET v  == Head(run[r].cands)
                 ch == Head(run[r].chans)
             IN  /\ Len(ev'.transcript) = 1
                 /\ IF ev'.transcript[1].ok
                       /\ ev'.transcript[1].len >= MinTranscriptLen
                    THEN /\ Len(ev'.summary) = 1
                         /\ videos' = Append(videos, [video_id |-> v, channel_id |-> ch])
                         /\ pending' = pending
                    ELSE /\ ev'.summary = <<>>
                         /\ pending' = Append(pending,
                               [video_id |-> v, channel_id |-> ch, retry_count |-> 0])
                         /\ videos' = videos]_vars

\* a transcript of exactly 100 characters made a videos row
C7_Witness ==
    /\ ev.op = "process"
    /\ ev.made = "video"
    /\ ev.transcript = << [ok |-> TRUE, len |-> MinTranscriptLen] >>
    /\ HasRow(videos, ev.vid)
    /\ ~HasRow(pending, ev.vid)

\* the pass got a usable transcript for its row: the summarizer is called and
\* the INSERT leaves the id in videos, inserted now or there already
C8_Insert ==
    \A r \in Runs :
        (/\ Steps(r)
         /\ run[r].pc = "row"
         /\ ev'.transcript # <<>>
         /\ ev'.transcript[1].ok
         /\ ev'.transcript[1].len >= MinTranscriptLen)
        => /\ Len(ev'.summary) = 1
           /\ HasRow(videos', Head(run[r].snap).video_id)
           /\ run'[r].pc = "unqueue"

\* the DELETE that follows leaves the id in videos and not in pending_videos
C8_Delete ==
    \A r \in Runs :
        (Steps(r) /\ run[r].pc = "unqueue")
        => /\ HasRow(videos', Head(run[r].snap).video_id)
           /\ ~HasRow(pending', Head(run[r].snap).video_id)

\* while a pass is under way, an id that is in videos and not in
\* pending_videos stays so
C8_StaysPromoted ==
    \A r \in Runs, v \in VideoIds :
        (/\ run[r].pc \in {"row", "unqueue"}
         /\ HasRow(videos, v)
         /\ ~HasRow(pending, v))
        => HasRow(videos', v) /\ ~HasRow(pending', v)

\* C8: when the pending-queue pass gets a usable transcript for a row, the
\* video is in videos and its pending row is gone by the end of the
\* invocation, whatever the row's retry_count was; the INSERT is ignored, it
\* does not fail, when the id is in videos already.
C8_UsableRetryPromotes == [][C8_Insert /\ C8_Delete /\ C8_StaysPromoted]_vars

\* a row with retry_count 1 is promoted while a single-video job has stored
\* the id already: the INSERT is ignored and the DELETE follows
C8_Witness ==
    /\ run["r1"].pc = "unqueue"
    /\ Head(run["r1"].snap).retry_count = 1
    /\ ev.op = "promote"
    /\ ev.made = "none"
    /\ RowOf(videos, ev.vid).channel_id = MANUAL_CHANNEL_ID

\* no channel's category equals the filter, compared without case
NoChannelMatches(f) ==
    \A i \in DOMAIN ChannelRows : Lower(ChannelRows[i].category) # Lower(f)

\* C9 as stated: every invocation runs the pending-queue pass exactly once,
\* whatever its category filter, a filter that matches no channel included.
C9_PassInEveryInvocation ==
    \A r \in Runs : Ended(r) => run[r].passes = 1

\* the pass comes after the channel loop, at most once, and an invocation
\* that has returned ran it if and only if its filter matched a channel
C9_PassCount ==
    \A r \in Runs :
        /\ run[r].passes <= 1
        /\ run[r].pc \in {"discover", "check", "process"} => run[r].passes = 0
        /\ run[r].pc \in {"row", "unqueue"} => run[r].passes = 1
        /\ Ended(r) =>
              run[r].passes = IF NoChannelMatches(run[r].filter) THEN 0 ELSE 1

\* the pass reads every row of pending_videos, of whatever channel
C9_PassReadsAll ==
    \A r \in Runs :
        run'[r].passes = run[r].passes + 1 => run'[r].snap = pending

\* C9 (amended): every invocation whose category filter matches at least one
\* channel runs the pending-queue pass exactly once, after its channel loop
\* and over the whole pending_videos table of all channels; an invocation
\* whose filter matches no channel returns without running it.
C9_PassOncePerMatchingInvocation == []C9_PassCount /\ [][C9_PassReadsAll]_vars

\* an invocation for the category of channel c3 retries a row of channel c1
C9_Witness ==
    /\ ev.op \in {"requeue", "discard", "promote"}
    /\ ev.actor = "r1"
    /\ SelectChannels(run["r1"].filter) = << "c3" >>
    /\ run["r1"].passes = 1

\* C10: when no channel's category equals the filter (compared without case)
\* the invocation ends as a no-op: videos and pending_videos are unchanged and
\* no discovery, transcript or summarizer call is made.
C10_NoMatchIsNoOp ==
    [][\A r \in Runs :
          (/\ Steps(r)
           /\ run'[r].pc # "idle"
           /\ NoChannelMatches(run'[r].filter))
          => /\ run'[r].pc = "done"
             /\ run'[r].passes = 0
             /\ videos' = videos
             /\ pending' = pending
             /\ attempts' = attempts
             /\ ev' = NoEvent]_vars

\* an invocation whose filter matches no channel has returned and left a
\* queued row alone
C10_Witness ==
    /\ Ended("r1")
    /\ NoChannelMatches(run["r1"].filter)
    /\ pending # <<>>

InLoop(r) == run[r].pc \in {"discover", "check", "process"}

InRows(r) == run[r].pc \in {"row", "unqueue"}

IsSuffix(a, b) ==
    /\ Len(a) <= Len(b)
    /\ a = SubSeq(b, Len(b) - Len(a) + 1, Len(b))

\* the step of invocation r ends the round of its channel early: discovery
\* threw or answered with nothing, or an error was raised at a candidate
ChannelFailed(r) ==
    /\ Steps(r)
    /\ InLoop(r)
    /\ \/ ev'.op \in {"fail", "throw"}
       \/ run[r].pc = "discover" /\ run'[r].pc # "check"

\* the failed channel gets no further work and writes nothing, and the loop
\* stands at the channel that follows it, or at the pass after the last one
C11_FailureStep ==
    \A r \in Runs :
        ChannelFailed(r) =>
            /\ run'[r].chans = Tail(run[r].chans)
            /\ run'[r].cands = <<>>
            /\ run'[r].pc = IF Tail(run[r].chans) = <<>> THEN "pass" ELSE "discover"
            /\ videos' = videos
            /\ pending' = pending

\* the channels still to come are the rest of the channels of the category, no
\* channel is left out and none comes twice; the pass is called once the loop
\* is over
C11_LoopInv ==
    \A r \in Runs :
        /\ InLoop(r) =>
              /\ run[r].chans # <<>>
              /\ IsSuffix(run[r].chans, SelectChannels(run[r].filter))
        /\ run[r].pc = "pass" => run[r].chans = <<>> /\ run[r].passes = 0
        /\ (InRows(r) \/ Ended(r)) /\ ~NoChannelMatches(run[r].filter)
              => run[r].passes = 1

\* C11: a failure while one channel is processed (discovery throws or returns
\* nothing, a query is rejected, an insert conflicts) is isolated: the channel
\* gets no further work in this run, every channel after it is still
\* processed, and the pending-queue pass is still called afterwards.
C11_ChannelFailureIsolated ==
    /\ [][C11_FailureStep]_vars
    /\ []C11_LoopInv
    /\ \A r \in Runs : InLoop(r) ~> (run[r].passes = 1)

\* a query failed at a candidate of channel c1 and the loop stands at channel c2
C11_Witness ==
    /\ ev.op = "fail"
    /\ ev.actor = "r1"
    /\ ev.vid \in VideoIds
    /\ run["r1"].pc = "discover"
    /\ run["r1"].chans = << "c2" >>

\* an error raised at one candidate or at one pending row does not reject the
\* invocation: the channels and the rows that follow are still to be processed
C12_ErrorStep ==
    \A r \in Runs :
        (/\ Steps(r)
         /\ ev'.op \in {"fail", "throw"}
         /\ run[r].pc \in {"check", "process", "row", "unqueue"})
        => /\ run'[r].pc # "rejected"
           /\ run[r].pc \in {"check", "process"} =>
                 /\ run'[r].chans = Tail(run[r].chans)
                 /\ run'[r].pc \in {"discover", "pass"}
           /\ run[r].pc \in {"row", "unqueue"} =>
                 /\ run'[r].snap = Tail(run[r].snap)
                 /\ run'[r].pc = IF Tail(run[r].snap) = <<>> THEN "done" ELSE "row"

\* C12: an error raised while a single candidate or a single pending row is
\* processed never ends the invocation: the remaining channels and the
\* remaining rows are still processed, the channel loop reaches the call of
\* the pass and the loop over the rows reaches the end of the invocation.
C12_ItemErrorNeverEndsRun ==
    /\ [][C12_ErrorStep]_vars
    /\ \A r \in Runs : InLoop(r) ~> (run[r].pc = "pass")
    /\ \A r \in Runs : InRows(r) ~> Ended(r)

\* a query failed at one pending row and the pass stands at the row after it
C12_Witness ==
    /\ ev.op = "fail"
    /\ ev.actor = "r1"
    /\ run["r1"].pc = "row"
    /\ ev.vid \in VideoIds
    /\ ev.vid # Head(run["r1"].snap).video_id

\* the INSERT of the step invocation r is about to take meets a row of the same
\* external id in its table
InsertConflicts(r, t) ==
    LET usable == t.ok /\ t.len >= MinTranscriptLen
    IN  \/ /\ run[r].pc = "process"
           /\ IF usable
              THEN HasRow(videos, Head(run[r].cands))
              ELSE HasRow(pending, Head(run[r].cands))
        \/ /\ run[r].pc = "row"
           /\ usable
           /\ HasRow(videos, Head(run[r].snap).video_id)

\* C13: whenever the channel loop or the pending-queue pass inserts a videos or
\* pending_videos row whose external id is in that table already, the insert
\* does nothing and raises no error, and the loop goes on with the candidate
\* that follows as after an insert that succeeded.
C13_ConflictIsSwallowed ==
    [][\A r \in Runs :
          (/\ Steps(r)
           /\ ev'.transcript # <<>>
           /\ InsertConflicts(r, ev'.transcript[1]))
          => /\ ev'.op # "throw"
             /\ videos' = videos
             /\ pending' = pending
             /\ run[r].pc = "process" => run'[r] = NextCandidate(run[r])
             /\ run[r].pc = "row" => run'[r].pc = "unqueue"]_vars

\* C14: under every interleaving of overlapping invocations of the
\* orchestrator, with a single-video job alongside, no two rows of videos have
\* the same external video id, and no two rows of pending_videos.
C14_OneRowPerIdUnderOverlap ==
    /\ \A i, j \in DOMAIN videos :
          videos[i].video_id = videos[j].video_id => i = j
    /\ \A i, j \in DOMAIN pending :
          pending[i].video_id = pending[j].video_id => i = j

\* two invocations overlap, both took the same id for new, and the INSERT of
\* the second was refused for the row of the first
C14_Witness ==
    /\ nInv = 2
    /\ ev.op = "throw"
    /\ ev.actor \in Runs
    /\ HasRow(videos, ev.vid)
    /\ RowOf(videos, ev.vid).channel_id # MANUAL_CHANNEL_ID
    /\ Len(videos) = 1

\* C15: once the pass has deleted the pending row of a video for lack of a
\* transcript, no later invocation makes a pending_videos or videos row for
\* its id, nor extracts its transcript again.
C15_DiscardedStaysDropped ==
    \A v \in dropped :
        /\ ~Present(v)
        /\ (ev.vid = v /\ ev.transcript # <<>>) => ev.op = "discard"

\* C16: at each of the three places a transcript is judged (channel loop,
\* pending-queue pass, single-video job) the step goes on to the summarizer if
\* and only if the transcript is there and has at least 100 characters; 99
\* characters and a missing transcript are refused, 100 are accepted.
C16_UsableIffAtLeast100 ==
    ev.transcript # <<>> =>
        LET t      == ev.transcript[1]
            usable == t.ok /\ t.len >= 100
        IN  /\ ev.op \in {"process", "throw", "requeue", "discard", "promote", "single"}
            /\ (ev.summary # <<>>) <=> usable
            /\ ev.op \in {"requeue", "discard"} => ~usable
            /\ ev.op = "promote" => usable
            /\ (ev.op = "process" /\ ~usable) => ev.made # "video"
            /\ (ev.op = "process" /\ usable) => ev.made = "video"
            /\ (ev.op = "single" /\ ~usable) => job[ev.actor].status = "error"
            /\ (ev.op = "single" /\ usable) => job[ev.actor].status = "done"

\* the single-video job refused a transcript of 99 characters
C16_Witness ==
    /\ ev.actor = "j1"
    /\ ev.op = "single"
    /\ ev.transcript = << [ok |-> TRUE, len |-> 99] >>
    /\ ev.summary = <<>>
    /\ job["j1"].status = "error"

\* C17: when the call of the summarization service fails (no credentials, the
\* request rejected, a status that is not ok, a body that is not the JSON
\* expected) the summarizer raises nothing and returns the first 300
\* characters of its input followed by "...", never the empty text; the caller
\* then inserts the videos row with that text as its summary.
C17_FailedCallFallsBack ==
    (calc.fn = "summary" /\ calc.pc # "in" /\ calc.answer.kind # "ok") =>
        LET t == calc.transcript
            v == calc.result.value
            n == IF Len(t) < 300 THEN Len(t) ELSE 300
        IN  /\ ~calc.result.raised
            /\ Len(v) = n + 3
            /\ \A i \in 1..n : v[i] = t[i]
            /\ \A i \in (n + 1)..(n + 3) : v[i] = "."
            /\ v # <<>>
            /\ calc.pc # "failed"
            /\ calc.pc = "stored" => calc.row = << [summary |-> v] >>

\* a status that is not ok for a transcript of 301 characters: a summary of
\* 303 characters is stored
C17_Witness ==
    /\ calc.fn = "summary"
    /\ calc.pc = "stored"
    /\ calc.answer.kind = "status"
    /\ Len(calc.transcript) = 301
    /\ Len(calc.row[1].summary) = 303

\* C18: the text sent to the summarization service is the transcript itself
\* when it has at most 8000 characters, and its first 8000 characters followed
\* by "..." when it has more: 8000 characters go unchanged, 8001 are cut.
C18_SubmittedText ==
    (calc.fn = "summary" /\ calc.pc # "in") =>
        /\ (calc.answer.kind # "nokey") <=> (calc.result.submitted # <<>>)
        /\ calc.result.submitted # <<>> =>
              LET t   == calc.transcript
                  sub == calc.result.submitted[1]
              IN  IF Len(t) <= 8000
                  THEN sub = t
                  ELSE /\ Len(sub) = 8003
                       /\ \A i \in 1..8000 : sub[i] = t[i]
                       /\ \A i \in 8001..8003 : sub[i] = "."

\* a transcript of 8001 characters was sent as 8000 characters and "..."
C18_Witness ==
    /\ calc.fn = "summary"
    /\ calc.pc = "out"
    /\ calc.answer.kind = "ok"
    /\ Len(calc.transcript) = 8001
    /\ Len(calc.result.submitted[1]) = 8003

\* the whole token is PT, then digits and H, digits and M, digits and S, each
\* of the three there or not
WellFormedToken(str) ==
    /\ Len(str) >= 2
    /\ str[1] = "P"
    /\ str[2] = "T"
    /\ Group(str, Group(str, Group(str, 3, "H").next, "M").next, "S").next
          = Len(str) + 1

\* hours * 3600 + minutes * 60 + seconds of a well-formed token
SecondsOf(str) ==
    LET h == Group(str, 3, "H")
        m == Group(str, h.next, "M")
        s == Group(str, m.next, "S")
    IN  ParseInt(h.digits) * 3600 + ParseInt(m.digits) * 60 + ParseInt(s.digits)

\* C19: duration parsing returns hours * 3600 + minutes * 60 + seconds with an
\* absent component counted as 0: PT1H2M3S gives 3723, PT5M gives 300, and a
\* malformed token gives 0.
C19_DurationInSeconds ==
    (calc.fn = "duration" /\ calc.pc = "out") =>
        /\ calc.token = << "P", "T", "1", "H", "2", "M", "3", "S" >>
              => calc.result = 3723
        /\ calc.token = << "P", "T", "5", "M" >> => calc.result = 300
        /\ WellFormedToken(calc.token) => calc.result = SecondsOf(calc.token)
        /\ ~WellFormedToken(calc.token) => calc.result = 0

C21_NeverRejects == \A r \in Runs : run[r].pc # "rejected"

\* C21, amended: the promise of an invocation rejects only when the query of
\* the channels or the query of the pending queue fails, never for a failure
\* inside the channel loop or the row loop; and a rejected promise is always
\* taken by the catch handler of the caller, which logs it.
C21_RejectionIsCaught ==
    /\ [][\A r \in Runs :
             (run[r].pc # "rejected" /\ run'[r].pc = "rejected")
                 => /\ run[r].pc \in {"idle", "done", "caught", "pass"}
                    /\ ev'.op = "fail"]_vars
    /\ (run["r1"].pc = "rejected") ~> (run["r1"].pc = "caught")

\* the query of the pending queue failed after the channel loop, and the
\* caller's handler took the rejection
C21_Witness ==
    /\ run["r1"].pc = "caught"
    /\ run["r1"].passes = 1
    /\ run["r1"].filter = DefaultFilter

\* C22: a single-video job enters the jobs map with status pending; from
\* pending its status changes only to done or to error; a status done or error
\* is never changed again, the record is only removed; and every pending job
\* reaches done or error when each of its awaits settles.
C22_StatusChangesOnce ==
    /\ [][\A j \in Jobs :
             /\ (job[j].status = "none" /\ job'[j].status # "none")
                    => job'[j].status = "pending"
             /\ job[j].status = "pending"
                    => job'[j].status \in {"pending", "done", "error"}
             /\ job[j].status \in {"done", "error"}
                    => job'[j].status \in {job[j].status, "none"}]_vars
    /\ \A j \in Jobs :
           (job[j].status = "pending") ~> (job[j].status \in {"done", "error"})

\* two jobs for the same video: one is done, the INSERT of the other threw and
\* its catch set the status error
C22_Witness ==
    /\ job["j1"].status = "error"
    /\ job["j2"].status = "done"
    /\ job["j1"].vid = job["j2"].vid
    /\ ev.actor = "j1"
    /\ ev.op = "throw"

\* C23: a record leaves the jobs map only from status done or error, never
\* while the job is pending; and every job that is done or error is removed in
\* the end, after which polling it is answered 404, job not found.
C23_RemovedOnlyAfterEnd ==
    /\ [][\A j \in Jobs :
             (job[j].status # "none" /\ job'[j].status = "none")
                 => job[j].status \in {"done", "error"}]_vars
    /\ \A j \in Jobs :
           (job[j].status \in {"done", "error"}) ~> (PollJob(j).status = "404")

\* a job stored its video and its record has been removed since: polling it
\* finds no job
C23_Witness ==
    /\ HasRow(videos, "v1")
    /\ \A j \in Jobs : job[j].status = "none"
    /\ PollJob("j1").body = "Job not found or expired"

\* a step in which the scheduled tick calls the orchestrator
TickStarts == nInv' = nInv + 1 /\ cron'.last = "tick"

\* C24: after setCronStatus(false) no scheduled tick starts an invocation until
\* setCronStatus(true) is called; once resumed a tick can start one again; and
\* the manual and category triggers, like the startup call before them, can
\* start an invocation whether or not the scheduled trigger is paused.
C24_PauseGatesOnlyTicks ==
    /\ [][TickStarts => cron.asked # "pause"]_vars
    /\ [](~Listening => ENABLED Boot("r1"))
    /\ []((Listening /\ NoneRunning /\ nInv < MaxInvocations)
            => /\ ENABLED ManualTrigger("r1")
               /\ ENABLED CategoryTrigger("r1", << "t", "e", "c", "h" >>)
               /\ (cron.asked = "resume" => ENABLED Tick("r1")))

\* the scheduled trigger is paused and an invocation started by the manual
\* trigger is under way
C24_Witness ==
    /\ cron.asked = "pause"
    /\ cron.task = "stopped"
    /\ ~cron.active
    /\ cron.last = "manual"
    /\ run["r1"].pc = "discover"
    /\ nInv = 2

\* paused, resumed, and a tick has started the invocation under way
C24_WitnessResumed ==
    /\ cron.asked = "resume"
    /\ cron.last = "tick"
    /\ run["r1"].pc = "discover"

\* C25: in every reachable state every row of videos and of pending_videos
\* names a channel that is in youtube_channels, whenever the channel is
\* deleted: before, during or after the invocation that loaded it or the pass
\* that read its rows.
C25_RowsReferenceChannels ==
    /\ \A i \in DOMAIN videos : videos[i].channel_id \in ChannelIds(channels)
    /\ \A i \in DOMAIN pending : pending[i].channel_id \in ChannelIds(channels)

\* the channel was deleted while the invocation that had loaded it was at a
\* video of it: the INSERT was refused and no row of the channel is left
C25_Witness ==
    /\ "c1" \notin ChannelIds(channels)
    /\ ev.actor = "r1"
    /\ ev.op = "throw"
    /\ ev.transcript # <<>>
    /\ videos = <<>>
    /\ pending = <<>>
    /\ dropped = {}

\* the pass read a row of the channel, the channel was deleted with its rows,
\* and the promotion of the row was refused
C25_WitnessPass ==
    /\ "c1" \notin ChannelIds(channels)
    /\ run["r1"].passes = 1
    /\ ev.op = "throw"
    /\ ev.summary # <<>>
    /\ ~HasRow(videos, ev.vid)

\* C26: in every reachable state no two rows of youtube_channels have the same
\* external channel id, also when two add-channel requests for one channel
\* both pass the existence check before either inserts.
C26_ExternalIdUnique ==
    \A i, k \in DOMAIN channels :
        channels[i].channel_id = channels[k].channel_id => i = k

\* both requests passed the existence check for the same channel; the first
\* INSERT made the row and the second was refused and answered 500
C26_Witness ==
    /\ addReq["q1"] = [pc |-> "replied", ext |-> "UC9", status |-> "201"]
    /\ addReq["q2"] = [pc |-> "replied", ext |-> "UC9", status |-> "500"]
    /\ ChannelExists(channels, "UC9")

\* C27: within one invocation at most one operation is in flight at any time.
C27_OneAtATime == \A r \in Runs : Cardinality(InFlight(run[r])) <= 1

\* the step is an INSERT of the channel loop of r that made a row
LoopInserts(r) ==
    /\ ev'.actor = r
    /\ ev'.op = "process"
    /\ ev'.made \in {"video", "pending"}

\* C28: within one channel of one invocation the candidates are taken in the
\* order discovery returned them: the list in hand only ever loses its first
\* element, a row is inserted only for the first element of the list in hand,
\* at the end of its table, and that element is then dropped; so of two
\* candidates that both get a row, the one discovery returned first gets its
\* row first.
C28_InsertionFollowsDiscovery ==
    [][\A r \in Runs :
          /\ (run[r].pc \in {"check", "process"} /\ run'[r] # run[r])
                => \/ run'[r].cands = run[r].cands
                   \/ run'[r].cands = Tail(run[r].cands)
                   \/ run'[r].cands = <<>>
          /\ LoopInserts(r)
                => /\ run[r].pc = "process"
                   /\ ev'.vid = Head(run[r].cands)
                   /\ run'[r].cands \in {Tail(run[r].cands), <<>>}
                   /\ ev'.vid \notin Range(run'[r].cands)
                   /\ \/ /\ ev'.made = "video"
                         /\ videos' = Append(videos, VideoRow(ev'.vid,
                                                     Head(run[r].chans)))
                      \/ /\ ev'.made = "pending"
                         /\ pending' = Append(pending, PendingRow(ev'.vid,
                                                       Head(run[r].chans)))]_vars

\* discovery returned v2 before v1: the row of v2 was inserted first and the
\* row of v1 after it
C28_Witness ==
    /\ nInv = 1
    /\ videos = << VideoRow("v2", "c1"), VideoRow("v1", "c1") >>
    /\ ev.actor = "r1"
    /\ ev.vid = "v1"
    /\ ev.made = "video"
    /\ \A j \in Jobs : job[j].status = "none"

\* the transcript is missing or has fewer than 100 characters
TooShortOrMissing(t) == ~t.ok \/ t.len < MinTranscriptLen

\* the last step was the channel loop handling a new video whose transcript is
\* too short or missing
NewVideoWithoutTranscript ==
    /\ ev.actor \in Runs
    /\ ev.op = "process"
    /\ ev.transcript # <<>>
    /\ TooShortOrMissing(ev.transcript[1])

C30_BothPassedTheCheck ==
    /\ run["r1"].pc = "process"
    /\ run["r2"].pc = "process"
    /\ Head(run["r1"].cands) = Head(run["r2"].cands)
    /\ ~HasRow(videos, Head(run["r1"].cands))
    /\ ~HasRow(pending, Head(run["r1"].cands))

\* C30: with overlapping invocations, whenever the channel loop has called the
\* summarizer for an id, exactly one Video row for that id is in the table
\* afterwards: the row the step inserted, or, when the INSERT was refused, the
\* row the other invocation inserted in between, the second summary being lost.
C30_TwoCallsOneRow ==
    (ev.actor \in Runs /\ ev.op \in {"process", "throw"} /\ ev.summary # <<>>)
        => /\ Count(videos, ev.vid) = 1
           /\ ev.op = "throw" => ev.made = "none"
           /\ ev.op = "process" => ev.made = "video"

\* two invocations and no job: the second summarizer call for the id was made
\* and its INSERT refused for the row the other invocation had stored after
\* both had passed the skip check
C30_Witness ==
    /\ nInv = 2
    /\ \A r \in Runs : run[r].passes = 0
    /\ \A j \in Jobs : job[j].status = "none"
    /\ ev.actor \in Runs
    /\ ev.op = "throw"
    /\ ev.summary # <<>>
    /\ Count(videos, ev.vid) = 1
    /\ RowOf(videos, ev.vid).channel_id = "c1"
    /\ ~HasRow(pending, ev.vid)

\* C31: an id whose pending row was discarded and that is in neither table is
\* not recognised by the skip check of a later invocation: the check ends with
\* the id taken as new, and with a transcript that is still unusable the
\* channel loop queues it again with retry_count 0.
C31_DiscardedIsTakenAsNew ==
    [][\A r \in Runs :
          (/\ Steps(r)
           /\ run[r].pc \in {"check", "process"}
           /\ Head(run[r].cands) \in dropped
           /\ ~Present(Head(run[r].cands)))
          => /\ ev'.op \in {"check", "new", "process"}
             /\ ev'.op = "new" => run'[r].pc = "process"
             /\ (ev'.op = "process" /\ TooShortOrMissing(ev'.transcript[1]))
                    => /\ ev'.made = "pending"
                       /\ HasRow(pending', ev'.vid)
                       /\ RowOf(pending', ev'.vid).retry_count = 0]_vars

\* the third invocation: v1 was discarded by the second, discovery returned it
\* again, it was queued again and its pass has retried it once more
C31_Witness ==
    /\ nInv = 3
    /\ "v1" \in dropped
    /\ InPendingWith("v1", 1)
    /\ attempts["v1"] = 2
    /\ ev.op = "requeue"
    /\ ev.vid = "v1"

\* C32: every row of pending_videos has retry_count 0 or 1, under overlapping
\* invocations too.
C32_RetryCountAtMostOne ==
    \A i \in DOMAIN pending : pending[i].retry_count \in {0, 1}

\* the invocations that have returned since v was queued, the one that queued
\* it included
CompletedSince(v) ==
    IF run["r1"].pc = "done" THEN age[v].all ELSE age[v].all - 1

\* those of them whose category filter matched a channel: an invocation that
\* is under way has matched one
MatchingCompletedSince(v) ==
    IF run["r1"].pc = "done" THEN age[v].matching ELSE age[v].matching - 1

\* C33 as stated: a row of pending_videos is gone when the second invocation
\* that completes after it was queued has returned, whatever the category
\* filters.
C33_GoneAfterTwoInvocations ==
    \A v \in VideoIds : HasRow(pending, v) => CompletedSince(v) < 2

\* C33, amended: with invocations that follow one another and no failing
\* query, a row of pending_videos is gone when the second invocation whose
\* filter matches a channel has returned since the row was queued; an
\* invocation whose filter matches no channel leaves the row as it is.
C33_GoneAfterTwoMatchingInvocations ==
    /\ \A v \in VideoIds : HasRow(pending, v) => MatchingCompletedSince(v) < 2
    /\ \A v \in VideoIds :
          (HasRow(pending, v) /\ run["r1"].pc = "done"
                              /\ MatchingCompletedSince(v) = 1)
              => RowOf(pending, v).retry_count = 1

\* v1 was queued by the first invocation, left alone by the second, whose
\* filter matched no channel, and discarded by the third
C33_Witness ==
    /\ nInv = 3
    /\ ev.op = "discard"
    /\ ev.vid = "v1"
    /\ age["v1"] = [all |-> 3, matching |-> 2]
    /\ ~HasRow(pending, "v1")

\* C34: a video the channel loop of an invocation queued is retried by the
\* pass of that same invocation: when the invocation has returned and the row
\* is still queued, its transcript was extracted twice and its retry_count is 1.
C34_RetriedInTheSameInvocation ==
    \A v \in VideoIds :
        (run["r1"].pc = "done" /\ HasRow(pending, v) /\ age[v].all = 1)
            => /\ run["r1"].passes = 1
               /\ attempts[v] = 2
               /\ RowOf(pending, v).retry_count = 1

\* the first invocation has returned: it queued v2 and its pass retried it
C34_Witness ==
    /\ nInv = 1
    /\ run["r1"].pc = "done"
    /\ age["v2"].all = 1
    /\ InPendingWith("v2", 1)
    /\ ev.op = "requeue"

\* C35: an error raised at one candidate of a channel ends the round of that
\* channel: the candidates after it are dropped from the list in hand, the
\* channel is not visited again in this invocation, the step persists nothing,
\* so that each later candidate is in the tables exactly as before, and the
\* rows stored earlier stay as they are.
C35_ErrorSkipsRestOfChannel ==
    [][\A r \in Runs :
          (/\ Steps(r)
           /\ run[r].pc \in {"check", "process"}
           /\ ev'.op \in {"fail", "throw"})
          => /\ run'[r].cands = <<>>
             /\ run'[r].chans = Tail(run[r].chans)
             /\ Head(run[r].chans) \notin Range(run'[r].chans)
             /\ run'[r].pc \in {"discover", "pass"}
             /\ \A v \in Range(Tail(run[r].cands)) :
                   /\ HasRow(videos', v) <=> HasRow(videos, v)
                   /\ HasRow(pending', v) <=> HasRow(pending, v)
             /\ \A i \in DOMAIN videos :
                   i \in DOMAIN videos' /\ videos'[i] = videos[i]
             /\ \A i \in DOMAIN pending :
                   i \in DOMAIN pending' /\ pending'[i] = pending[i]]_vars

\* discovery returned v1 and then v2; the INSERT for v1 was refused because a
\* single-video job had stored v1 in between; v2 was not looked at and is in
\* neither table
C35_Witness ==
    /\ nInv = 1
    /\ ev.actor = "r1"
    /\ ev.op = "throw"
    /\ ev.vid = "v1"
    /\ RowOf(videos, "v1").channel_id = MANUAL_CHANNEL_ID
    /\ scen["v2"]
    /\ attempts["v2"] = 0
    /\ ~Present("v2")
    /\ run["r1"].cands = <<>>

\* a step of the single-video job j that sets its status
JobEnds(j, st) == job[j].status = "pending" /\ job'[j].status = st

\* C36: a single-video job ends "done" only by the step that appends the Video
\* row of its id, owned by the sentinel channel; a job that ends "error" has
\* left the videos table as it was; and no step of a job creates, changes or
\* removes a PendingVideo row.
C36_JobWritesOnlyItsVideoRow ==
    [][\A j \in Jobs :
          job'[j] # job[j]
          => /\ pending' = pending
             /\ JobEnds(j, "done")
                => videos' = Append(videos, [video_id |-> job[j].vid,
                                             channel_id |-> MANUAL_CHANNEL_ID])
             /\ JobEnds(j, "error") => videos' = videos
             /\ videos' # videos => JobEnds(j, "done")]_vars

\* the job for v1 ended in error on a transcript it could not use, while the
\* orchestrator holds v1 in the queue with its retry still to come: the job
\* left the queued row alone and stored nothing
C36_Witness ==
    /\ job["j1"].status = "error"
    /\ ev.actor = "j1"
    /\ ev.op = "single"
    /\ ev.vid = "v1"
    /\ ev.transcript # <<>>
    /\ TooShortOrMissing(ev.transcript[1])
    /\ InPendingWith("v1", 0)
    /\ ~HasRow(videos, "v1")

\* C37: whoever races on an id, its Video row is inserted once: every step
\* that changes the videos table appends one row whose id the table did not
\* hold; and a single-video job that takes its duplicate check, or its INSERT,
\* when the id is already stored ends in status "error" and leaves the table,
\* the existing row included, as it was.
C37_OneInserterJobLoses ==
    [][/\ videos' # videos
          => \E v \in VideoIds, ch \in {MANUAL_CHANNEL_ID} \cup ChannelIds(channels) :
                /\ ~HasRow(videos, v)
                /\ videos' = Append(videos, [video_id |-> v, channel_id |-> ch])
       /\ \A j \in Jobs :
             (/\ job'[j] # job[j]
              /\ job[j].pc \in {"check", "work"}
              /\ HasRow(videos, job[j].vid))
             => /\ job'[j].status = "error"
                /\ videos' = videos]_vars

\* the job passed its duplicate check for v1, an invocation stored v1 under its
\* channel, and the INSERT of the job was refused: the job ended in error and
\* the row of the invocation is the only one
C37_Witness ==
    /\ ev.actor = "j1"
    /\ ev.op = "throw"
    /\ ev.vid = "v1"
    /\ job["j1"].status = "error"
    /\ Count(videos, "v1") = 1
    /\ RowOf(videos, "v1").channel_id # MANUAL_CHANNEL_ID

\* C38: the status the manager reports is true as long as initCron has not
\* been called, whatever setCronStatus was called with before; once it has
\* been called the status is the argument of the last setCronStatus call made
\* since, and true when initCron was the last call; and the step of a
\* setCronStatus call before initCron changes neither task nor active.
C38_StatusFollowsLastCall ==
    /\ [](getCronStatus.active =
             IF ~Listening THEN TRUE
             ELSE CASE cron.asked = "pause"  -> FALSE
                    [] cron.asked = "resume" -> TRUE
                    [] OTHER                 -> TRUE)
    /\ []((cron.asked = "init") => Listening)
    /\ [][~Listening /\ ~Listening'
            => /\ cron'.task = cron.task
               /\ cron'.active = cron.active]_vars

\* setCronStatus(false) was called before initCron: no task, status still true
C38_Witness ==
    /\ ~Listening
    /\ cron.asked = "pause"
    /\ getCronStatus.active

====
